---- MODULE Spec2Model ----
(***************************************************************************)
(* Model of upload_to_channel.py: the filename normaliser, the pair        *)
(* builder and the upload orchestrator (main / upload_pair /               *)
(* telegram_call / prepared_image_for_upload).                             *)
(*                                                                         *)
(* Strings are sequences of one-character strings, so that strip, lower,   *)
(* endswith, slicing and the sort keys are computed as Python computes     *)
(* them.  Messages and report text are sequences of string fragments in    *)
(* which a line break is always the fragment "\n" on its own.              *)
(***************************************************************************)
EXTENDS Integers, Sequences, FiniteSets, TLC

VARIABLES
    nsLog,              \* normalize_stem: the input stem followed by the results of successive calls
    folder,             \* the directory contents: a set of entries [name, is_file]
    bpLog,              \* build_pairs: the results of successive calls on the same folder
    cfg,                \* config.py values: [token_set, channel_set, folder_exists]
    pc,                 \* position of main / upload_pair
    pairs,              \* main: pairs returned by build_pairs
    missing,            \* main: missing returned by build_pairs
    index,              \* main: loop index (1-based)
    uploaded,           \* main: counter
    too_large,          \* main: counter
    failed,             \* main: counter
    too_large_details,  \* main: accumulated report lines
    out,                \* stdout: sequence of printed records
    reportFile,         \* skipped_too_large.txt: [exists, text]
    reportWrites,       \* number of write_text calls on the report made by this run
    cur,                \* the pair being processed: what upload_pair has done so far
    exc,                \* the exception in flight / upload_pair's result
    tmp,                \* the temporary directory of prepared_image_for_upload: [dir, file]
    sleeps,             \* number of sleep(POST_DELAY_SECONDS) calls made
    processed,          \* stems handed to upload_pair, in order
    enc,                \* encode_multipart: the arguments and the result of one call
    reportAtStart       \* skipped_too_large.txt as the run found it

normVars == <<nsLog>>
bpVars   == <<bpLog>>
mainVars == <<cfg, pc, pairs, missing, index, uploaded, too_large, failed,
              too_large_details, out, reportFile, reportWrites, cur, exc, tmp,
              sleeps, processed>>
vars == <<nsLog, folder, bpLog, cfg, pc, pairs, missing, index, uploaded,
          too_large, failed, too_large_details, out, reportFile, reportWrites,
          cur, exc, tmp, sleeps, processed, enc, reportAtStart>>

----------------------------------------------------------------------------
(* Bounds *)

MaxParts == 2           \* encode_multipart: number of file entries
MaxSegs == 3            \* normalize_stem inputs: number of concatenated segments
MaxFiles == 4           \* build_pairs: number of directory entries
MaxMainFiles == 4       \* main: number of directory entries
MAX_FILE_SIZE_MB == 1   \* config.MAX_FILE_SIZE_MB

----------------------------------------------------------------------------
(* Characters and strings *)

Uppers ==
    <<"A", "B", "C", "D", "E", "F", "G", "H", "I", "J", "K", "L", "M",
      "N", "O", "P", "Q", "R", "S", "T", "U", "V", "W", "X", "Y", "Z">>

Lowers ==
    <<"a", "b", "c", "d", "e", "f", "g", "h", "i", "j", "k", "l", "m",
      "n", "o", "p", "q", "r", "s", "t", "u", "v", "w", "x", "y", "z">>

\* The characters used, in code point order.
Alphabet == <<"\t", " ", ".">> \o Uppers \o <<"_">> \o Lowers

Ord(c) == CHOOSE i \in 1..Len(Alphabet) : Alphabet[i] = c

\* str.lower on one character.
LowerChar(c) ==
    IF \E i \in 1..Len(Uppers) : Uppers[i] = c
    THEN Lowers[CHOOSE i \in 1..Len(Uppers) : Uppers[i] = c]
    ELSE c

\* str.lower
Lower(s) == [i \in 1..Len(s) |-> LowerChar(s[i])]

IsSpace(c) == c \in {" ", "\t"}

RECURSIVE LStrip(_)
LStrip(s) == IF s # <<>> /\ IsSpace(Head(s)) THEN LStrip(Tail(s)) ELSE s

RECURSIVE RStrip(_)
RStrip(s) ==
    IF s # <<>> /\ IsSpace(s[Len(s)]) THEN RStrip(SubSeq(s, 1, Len(s) - 1)) ELSE s

\* str.strip
Strip(s) == RStrip(LStrip(s))

\* str.endswith
EndsWith(s, suf) ==
    /\ Len(s) >= Len(suf)
    /\ SubSeq(s, Len(s) - Len(suf) + 1, Len(s)) = suf

\* Python's < on str: lexicographic by code point.
RECURSIVE StrLess(_, _)
StrLess(a, b) ==
    IF b = <<>> THEN FALSE
    ELSE IF a = <<>> THEN TRUE
    ELSE IF Head(a) = Head(b) THEN StrLess(Tail(a), Tail(b))
    ELSE Ord(Head(a)) < Ord(Head(b))

\* s contains sub as a contiguous run (Python's `sub in s`).
Contains(s, sub) ==
    \E i \in 0..(Len(s) - Len(sub)) : SubSeq(s, i + 1, i + Len(sub)) = sub

RECURSIVE Concat(_)
Concat(ss) == IF ss = <<>> THEN <<>> ELSE Head(ss) \o Concat(Tail(ss))

DotCover == <<".", "c", "o", "v", "e", "r">>

----------------------------------------------------------------------------
(* normalize_stem *)

normalize_stem(stem) ==
    LET normalized == Strip(stem)
        cut == IF EndsWith(Lower(normalized), DotCover)
               THEN SubSeq(normalized, 1, Len(normalized) - Len(DotCover))
               ELSE normalized
    IN  Strip(cut)

\* Stems the normaliser is tried on: up to MaxSegs segments concatenated.
Segments ==
    { <<" ">>, <<"a">>, <<"B">>,
      <<".", "c", "o", "v", "e", "r">>,
      <<".", "C", "o", "V", "E", "R">>,
      <<".", "c", "o", "v">> }

RECURSIVE SegSeqs(_)
SegSeqs(n) ==
    IF n = 0 THEN { <<>> }
    ELSE LET shorter == SegSeqs(n - 1)
         IN  shorter \cup { s \o seg : s \in shorter, seg \in Segments }

StemInputs == SegSeqs(MaxSegs)

----------------------------------------------------------------------------
(* pathlib: Path.name split into stem and suffix *)

\* str.rfind("."), 1-based; 0 when there is no dot.
LastDot(name) ==
    IF \E i \in 1..Len(name) : name[i] = "."
    THEN CHOOSE i \in 1..Len(name) :
            /\ name[i] = "."
            /\ \A j \in (i + 1)..Len(name) : name[j] # "."
    ELSE 0

\* A suffix exists when the last dot is neither the first nor the last character.
HasSuffix(name) == LastDot(name) > 1 /\ LastDot(name) < Len(name)

PathSuffix(name) ==
    IF HasSuffix(name) THEN SubSeq(name, LastDot(name), Len(name)) ELSE <<>>

PathStem(name) ==
    IF HasSuffix(name) THEN SubSeq(name, 1, LastDot(name) - 1) ELSE name

----------------------------------------------------------------------------
(* build_pairs *)

IMAGE_EXTENSIONS ==
    { <<".", "j", "p", "g">>, <<".", "j", "p", "e", "g">>, <<".", "p", "n", "g">>,
      <<".", "w", "e", "b", "p">>, <<".", "t", "i", "f">>, <<".", "t", "i", "f", "f">> }

SCRIPT_FILES ==
    { <<"u", "p", "l", "o", "a", "d", "_", "t", "o", "_", "c", "h", "a", "n", "n", "e", "l", ".", "p", "y">>,
      <<"c", "o", "n", "f", "i", "g", ".", "p", "y">>,
      <<"_", "_", "p", "y", "c", "a", "c", "h", "e", "_", "_">> }

\* The orders in which iterdir() may return the entries of a directory.
Enumerations(dir) ==
    { o \in [1..Cardinality(dir) -> dir] :
        \A i, j \in 1..Cardinality(dir) : i # j => o[i] # o[j] }

\* list.sort / sorted on <<key, value>> items: stable, ascending by key.
RECURSIVE InsertByKey(_, _)
InsertByKey(sortedItems, item) ==
    IF sortedItems = <<>> THEN <<item>>
    ELSE IF StrLess(item[1], Head(sortedItems)[1])
         THEN <<item>> \o sortedItems
         ELSE <<Head(sortedItems)>> \o InsertByKey(Tail(sortedItems), item)

RECURSIVE SortedByKey(_)
SortedByKey(items) ==
    IF items = <<>> THEN <<>>
    ELSE InsertByKey(SortedByKey(SubSeq(items, 1, Len(items) - 1)), items[Len(items)])

Values(items) == [i \in 1..Len(items) |-> items[i][2]]

IsImage(p) == Lower(PathSuffix(p.name)) \in IMAGE_EXTENSIONS

StemOf(p) == normalize_stem(PathStem(p.name))

\* The keys of by_stem in insertion order.
RECURSIVE StemKeys(_)
StemKeys(items) ==
    IF items = <<>> THEN <<>>
    ELSE LET before == StemKeys(SubSeq(items, 1, Len(items) - 1))
             stem == StemOf(items[Len(items)])
         IN  IF \E i \in 1..Len(before) : before[i] = stem
             THEN before ELSE Append(before, stem)

\* by_stem[stem]: the files of the stem in insertion order.
StemGroup(items, stem) == SelectSeq(items, LAMBDA p : StemOf(p) = stem)

IsListed(p) == p.is_file /\ p.name \notin SCRIPT_FILES

\* PairLoop with the incomplete stems dropped instead of recorded as missing.
RECURSIVE PairLoopDropMissing(_, _, _)
PairLoopDropMissing(items, stems, acc) ==
    IF stems = <<>> THEN acc
    ELSE LET stem == Head(stems)
             byStem == StemGroup(items, stem)
             group == Values(SortedByKey(
                         [i \in 1..Len(byStem) |->
                             <<Lower(PathSuffix(byStem[i].name)), byStem[i]>>]))
             images == SelectSeq(group, IsImage)
             books == SelectSeq(group, LAMBDA p : ~IsImage(p))
         IN  IF images = <<>> \/ books = <<>>
             THEN PairLoopDropMissing(items, Tail(stems), acc)
             ELSE PairLoopDropMissing(items, Tail(stems),
                           [acc EXCEPT !.pairs =
                               Append(@, [stem |-> stem, image |-> images[1],
                                          book |-> books[1]])])

\* The loop of build_pairs over the sorted stems; returns [pairs, missing].
RECURSIVE PairLoop(_, _, _)
PairLoop(items, stems, acc) ==
    IF stems = <<>> THEN acc
    ELSE LET stem == Head(stems)
             byStem == StemGroup(items, stem)
             group == Values(SortedByKey(
                         [i \in 1..Len(byStem) |->
                             <<Lower(PathSuffix(byStem[i].name)), byStem[i]>>]))
             images == SelectSeq(group, IsImage)
             books == SelectSeq(group, LAMBDA p : ~IsImage(p))
         IN  IF images = <<>> \/ books = <<>>
             THEN PairLoop(items, Tail(stems),
                           [acc EXCEPT !.missing = Append(@, stem)])
             ELSE PairLoop(items, Tail(stems),
                           [acc EXCEPT !.pairs =
                               Append(@, [stem |-> stem, image |-> images[1],
                                          book |-> books[1]])])

\* build_pairs on the entries in the order iterdir() returned them.
build_pairs(listing) ==
    LET items == SelectSeq(listing, IsListed)
        keys == StemKeys(items)
        stems == Values(SortedByKey([i \in 1..Len(keys) |-> <<Lower(keys[i]), keys[i]>>]))
    IN  PairLoop(items, stems, [pairs |-> <<>>, missing |-> <<>>])

----------------------------------------------------------------------------
(* Values of the orchestrator's variables while main is not running *)

NoFile == [exists |-> FALSE, text |-> <<>>]
NoExc == [cls |-> "none", msg |-> <<>>]
NoPair == [book_size |-> -1, prepared |-> FALSE, image_size |-> -1,
           ready |-> [tmp |-> FALSE, name |-> <<>>], calls |-> <<>>]
NoTmp == [dir |-> FALSE, file |-> FALSE]
NoEnc == [fields |-> <<>>, files |-> <<>>, called |-> FALSE, raised |-> FALSE,
          body |-> <<>>, content_type |-> <<>>]

MainIdle ==
    /\ cfg = [token_set |-> TRUE, channel_set |-> TRUE, folder_exists |-> TRUE]
    /\ pc = "idle"
    /\ pairs = <<>>
    /\ missing = <<>>
    /\ index = 0
    /\ uploaded = 0
    /\ too_large = 0
    /\ failed = 0
    /\ too_large_details = <<>>
    /\ out = <<>>
    /\ reportFile = NoFile
    /\ reportAtStart = NoFile
    /\ reportWrites = 0
    /\ cur = NoPair
    /\ exc = NoExc
    /\ tmp = NoTmp
    /\ sleeps = 0
    /\ processed = <<>>

----------------------------------------------------------------------------
(* Specification of normalize_stem: the function applied to a stem and      *)
(* then to its own result.                                                  *)

NormInit ==
    /\ nsLog \in { <<s>> : s \in StemInputs }
    /\ folder = {}
    /\ bpLog = <<>>
    /\ enc = NoEnc
    /\ MainIdle

NormalizeStem ==
    /\ Len(nsLog) < 3
    /\ nsLog' = Append(nsLog, normalize_stem(nsLog[Len(nsLog)]))
    /\ UNCHANGED <<folder, bpLog, mainVars, enc, reportAtStart>>

NormNext == NormalizeStem

NormSpec == NormInit /\ [][NormNext]_vars

----------------------------------------------------------------------------
(* Specification of build_pairs: a directory whose entries iterdir() may    *)
(* return in any order, listed twice.                                       *)

N(s) == [name |-> s, is_file |-> TRUE]

EntryUniverse ==
    { N(<<"A", ".", "j", "p", "g">>),
      N(<<"A", ".", "J", "P", "G">>),
      N(<<"a", ".", "p", "n", "g">>),
      N(<<"A", ".", "p", "d", "f">>),
      N(<<"a", ".", "e", "p", "u", "b">>),
      N(<<"A", ".", "c", "o", "v", "e", "r", ".", "t", "i", "f">>),
      N(<<"B", ".", "p", "d", "f">>),
      N(<<"c", "o", "n", "f", "i", "g", ".", "p", "y">>),
      [name |-> <<"B", ".", "j", "p", "g">>, is_file |-> FALSE] }

Folders == { d \in SUBSET EntryUniverse : Cardinality(d) <= MaxFiles }

PairsInit ==
    /\ folder \in Folders
    /\ bpLog = <<>>
    /\ nsLog = <<>>
    /\ enc = NoEnc
    /\ MainIdle

BuildPairs ==
    /\ Len(bpLog) < 2
    /\ \E listing \in Enumerations(folder) :
          bpLog' = Append(bpLog, build_pairs(listing))
    /\ UNCHANGED <<nsLog, folder, mainVars, enc, reportAtStart>>

PairsNext == BuildPairs

PairsSpec == PairsInit /\ [][PairsNext]_vars

----------------------------------------------------------------------------
(* C6: normalize_stem is idempotent: applying it to its own result returns  *)
(* that result unchanged, for every stem.                                   *)
NormalizeIdempotent ==
    Len(nsLog) >= 3 => nsLog[3] = nsLog[2]

----------------------------------------------------------------------------
(* C7: build_pairs is deterministic in the directory contents: two listings *)
(* of the same set of files give the same pairs (order, image and document  *)
(* of each stem) and the same missing list, whatever order iterdir()        *)
(* returned the entries in.                                                 *)
BuildPairsDeterministic ==
    Len(bpLog) >= 2 => bpLog[2] = bpLog[1]

----------------------------------------------------------------------------
(* C8: build_pairs partitions the normalized stems of the listed files:     *)
(* every stem appears exactly once in pairs or in missing; a stem is in     *)
(* pairs exactly when its group holds a file with an image extension and a  *)
(* file without; every pair is made of an image-extension file and a        *)
(* non-image file of that stem's group.                                     *)

ListedFiles == { p \in folder : p.is_file /\ p.name \notin SCRIPT_FILES }

HasImageExt(p) == Lower(PathSuffix(p.name)) \in IMAGE_EXTENSIONS

GroupOf(stem) == { p \in ListedFiles : normalize_stem(PathStem(p.name)) = stem }

ListedStems == { normalize_stem(PathStem(p.name)) : p \in ListedFiles }

Occurrences(seq, x) == Cardinality({ i \in 1..Len(seq) : seq[i] = x })

PartitionOf(r) ==
    LET pairStems == [i \in 1..Len(r.pairs) |-> r.pairs[i].stem]
        all == pairStems \o r.missing
    IN  /\ \A i \in 1..Len(all) : all[i] \in ListedStems
        /\ \A s \in ListedStems : Occurrences(all, s) = 1
        /\ \A s \in ListedStems :
              Occurrences(pairStems, s) = 1
                 <=> /\ \E p \in GroupOf(s) : HasImageExt(p)
                     /\ \E p \in GroupOf(s) : ~HasImageExt(p)
        /\ \A i \in 1..Len(r.pairs) :
              /\ r.pairs[i].image \in GroupOf(r.pairs[i].stem)
              /\ r.pairs[i].book \in GroupOf(r.pairs[i].stem)
              /\ HasImageExt(r.pairs[i].image)
              /\ ~HasImageExt(r.pairs[i].book)

BuildPairsPartition ==
    \A k \in 1..Len(bpLog) : PartitionOf(bpLog[k])

\* A listing with a pair, a missing stem and a group holding two images.
BuildPairsPartitionWitness ==
    /\ Len(bpLog) >= 1
    /\ Len(bpLog[1].pairs) >= 1
    /\ Len(bpLog[1].missing) >= 1
    /\ \E s \in ListedStems :
          Cardinality({ p \in GroupOf(s) : HasImageExt(p) }) >= 2

----------------------------------------------------------------------------
(* Sizes, messages and helpers of the orchestrator *)

MAX_FILE_SIZE_BYTES == MAX_FILE_SIZE_MB * 1024 * 1024

\* st_size values a stat() may report.
Sizes == { 1, MAX_FILE_SIZE_BYTES, MAX_FILE_SIZE_BYTES + 1, 2 * MAX_FILE_SIZE_BYTES }

\* f"{size_bytes / (1024 * 1024):.2f} MB": hundredths of a MiB, rounded half to even.
format_size(size_bytes) ==
    LET unit == 1024 * 1024
        q == (size_bytes * 100) \div unit
        r == (size_bytes * 100) % unit
        h == IF 2 * r > unit \/ (2 * r = unit /\ q % 2 = 1) THEN q + 1 ELSE q
    IN  <<ToString(h \div 100), ".", ToString((h % 100) \div 10), ToString(h % 10), " MB">>

BadChars == { "\\", "/", ":", "*", "?", "\"", "<", ">", "|" }
SpaceChars == { " ", "\t", "\n", "\r", "\f" }

\* re.sub(r'[<set>]+', repl, s): every maximal run of characters of the set becomes repl.
RECURSIVE SubRuns(_, _, _)
SubRuns(s, set, repl) ==
    IF s = <<>> THEN <<>>
    ELSE IF Head(s) \in set
         THEN IF Len(s) > 1 /\ s[2] \in set
              THEN SubRuns(Tail(s), set, repl)
              ELSE <<repl>> \o SubRuns(Tail(s), set, repl)
         ELSE <<Head(s)>> \o SubRuns(Tail(s), set, repl)

sanitize_filename(name) ==
    LET cleaned == Strip(SubRuns(name, BadChars, "_"))
        collapsed == SubRuns(cleaned, SpaceChars, " ")
    IN  SubSeq(collapsed, 1, IF Len(collapsed) < 180 THEN Len(collapsed) ELSE 180)

TooLargeError == "TelegramRequestTooLargeError"

\* Exception classes that derive from Exception (all the ones raised here).
ExceptionClasses ==
    { TooLargeError, "RuntimeError", "OSError", "UnidentifiedImageError",
      "JSONDecodeError", "TimeoutError" }

Raise(cls, msg) == [cls |-> cls, msg |-> msg]

\* What the remote end (or the transport) may answer to one POST.
HttpCodes == { 400, 413, 429, 500 }
HttpBodies == { <<>>, <<"Request Entity Too Large">>, <<"<html>", "\n", "</html>">> }

Responses ==
    { [kind |-> "json", ok |-> TRUE, code |-> 200, body |-> <<>>],
      [kind |-> "json", ok |-> FALSE, code |-> 200, body |-> <<>>],
      [kind |-> "not_json", ok |-> FALSE, code |-> 200, body |-> <<>>],
      [kind |-> "url_error", ok |-> FALSE, code |-> 0, body |-> <<>>],
      [kind |-> "timeout", ok |-> FALSE, code |-> 0, body |-> <<>>] }
    \cup { [kind |-> "http_error", ok |-> FALSE, code |-> c, body |-> b] :
              c \in HttpCodes, b \in HttpBodies }

\* telegram_call with every HTTP error raised as a plain RuntimeError.
telegram_call_no_413(resp) ==
    CASE resp.kind = "http_error" ->
            Raise("RuntimeError", <<"HTTP ", ToString(resp.code), ": ">> \o resp.body)
      [] resp.kind = "url_error" -> Raise("RuntimeError", <<"Network error: ">>)
      [] resp.kind = "timeout" -> Raise("TimeoutError", <<"timed out">>)
      [] resp.kind = "not_json" -> Raise("JSONDecodeError", <<"Expecting value">>)
      [] resp.kind = "json" ->
            IF ~resp.ok THEN Raise("RuntimeError", <<"Telegram API error: ">>) ELSE NoExc

\* telegram_call without the check of the payload's ok flag.
telegram_call_ignores_ok(resp) ==
    CASE resp.kind = "http_error" ->
            IF resp.code = 413
            THEN Raise(TooLargeError, <<"HTTP ", ToString(resp.code), ": ">> \o resp.body)
            ELSE Raise("RuntimeError", <<"HTTP ", ToString(resp.code), ": ">> \o resp.body)
      [] resp.kind = "url_error" -> Raise("RuntimeError", <<"Network error: ">>)
      [] resp.kind = "timeout" -> Raise("TimeoutError", <<"timed out">>)
      [] resp.kind = "not_json" -> Raise("JSONDecodeError", <<"Expecting value">>)
      [] resp.kind = "json" -> NoExc

\* telegram_call once the request is built: the exception raised for the
\* response, NoExc when the payload is returned.
telegram_call(resp) ==
    CASE resp.kind = "http_error" ->
            IF resp.code = 413
            THEN Raise(TooLargeError, <<"HTTP ", ToString(resp.code), ": ">> \o resp.body)
            ELSE Raise("RuntimeError", <<"HTTP ", ToString(resp.code), ": ">> \o resp.body)
      [] resp.kind = "url_error" -> Raise("RuntimeError", <<"Network error: ">>)
      [] resp.kind = "timeout" -> Raise("TimeoutError", <<"timed out">>)
      [] resp.kind = "not_json" -> Raise("JSONDecodeError", <<"Expecting value">>)
      [] resp.kind = "json" ->
            IF ~resp.ok THEN Raise("RuntimeError", <<"Telegram API error: ">>) ELSE NoExc

\* The size gates of upload_pair.
BookTooLargeNever(book_size) == FALSE

BookTooLarge(book_size) == book_size > MAX_FILE_SIZE_BYTES

ImageTooLargeNever(image_size) == FALSE

ImageTooLargeInclusive(image_size) == image_size >= MAX_FILE_SIZE_BYTES

ImageTooLarge(image_size) == image_size > MAX_FILE_SIZE_BYTES

\* NeedsConversion with the suffix compared as spelled, not case-folded.
NeedsConversionCaseSensitive(image) ==
    PathSuffix(image.name) \in { <<".", "t", "i", "f">>, <<".", "t", "i", "f", "f">> }

NeedsConversion(image) ==
    Lower(PathSuffix(image.name)) \in { <<".", "t", "i", "f">>, <<".", "t", "i", "f", "f">> }

\* The branch of main's try statement taken for upload_pair's result.
HandlerCatchesOnlyTooLarge(cls) ==
    IF cls = "none" THEN "uploaded"
    ELSE IF cls = TooLargeError THEN "too_large"
    ELSE "uncaught"

Handler(cls) ==
    IF cls = "none" THEN "uploaded"
    ELSE IF cls = TooLargeError THEN "too_large"
    ELSE IF cls \in ExceptionClasses THEN "failed"
    ELSE "uncaught"

\* The temporary directory after the with block of prepared_image_for_upload is left.
TmpAfterExitLeakOnError(t, e) == IF e = NoExc THEN NoTmp ELSE t

TmpAfterExit(t, e) == NoTmp

\* The continuation of upload_pair when its with block is left.
AfterWithSwallows(e) == "send_document"

AfterWith(e) == IF e = NoExc THEN "send_document" ELSE "classify"

\* The number of sleeps made once the end of the loop body is reached with
\* upload_pair's result e: the sleep is outside the try statement.
AfterSleepOnlyOnSuccess(n, e) == IF e = NoExc THEN n + 1 ELSE n

AfterSleep(n, e) == n + 1

\* The checks of main before build_pairs: the error raised, "none" when all pass.
SetupErrorTokenOnly(c) ==
    IF ~c.token_set THEN "credentials"
    ELSE IF ~c.folder_exists THEN "folder"
    ELSE "none"

SetupError(c) ==
    IF ~c.token_set \/ ~c.channel_set THEN "credentials"
    ELSE IF ~c.folder_exists THEN "folder"
    ELSE "none"

\* Path.write_text with the file opened for appending.
write_text_appending(file, text) == [exists |-> TRUE, text |-> file.text \o text]

\* Path.write_text: the file is created or truncated, then written.
write_text(file, text) == [exists |-> TRUE, text |-> text]

\* "\n".join(lines) + "\n"
RECURSIVE JoinLines(_)
JoinLines(lines) ==
    IF lines = <<>> THEN <<"\n">>
    ELSE IF Len(lines) = 1 THEN Head(lines) \o <<"\n">>
    ELSE Head(lines) \o <<"\n">> \o JoinLines(Tail(lines))

\* Number of lines of a text whose last line is newline-terminated.
LineCount(text) == Cardinality({ i \in 1..Len(text) : text[i] = "\n" })

Printed(t, n) == [t |-> t, n |-> n]

----------------------------------------------------------------------------
(* Specification of main: one run of the script over a folder *)

MainUniverse ==
    { N(<<"A", ".", "c", "o", "v", "e", "r", ".", "t", "i", "f">>),
      N(<<"A", ".", "p", "d", "f">>),
      N(<<"b", ".", "p", "n", "g">>),
      N(<<"b", ".", "e", "p", "u", "b">>),
      N(<<"C", ".", "e", "p", "u", "b">>),
      N(<<"C", ".", "T", "I", "F">>) }

MainFolders == { d \in SUBSET MainUniverse : Cardinality(d) <= MaxMainFiles }

\* A report left behind by an earlier run.
StaleReport ==
    [exists |-> TRUE,
     text |-> <<"old", " | ", "Book is too large: old.pdf (60.00 MB)", "\n">>]

MainInit ==
    /\ nsLog = <<>>
    /\ bpLog = <<>>
    /\ enc = NoEnc
    /\ cfg \in [token_set : BOOLEAN, channel_set : BOOLEAN, folder_exists : BOOLEAN]
    /\ folder \in MainFolders
    /\ ~cfg.folder_exists => folder = {}
    /\ pc = "main"
    /\ pairs = <<>>
    /\ missing = <<>>
    /\ index = 0
    /\ uploaded = 0
    /\ too_large = 0
    /\ failed = 0
    /\ too_large_details = <<>>
    /\ out = <<>>
    /\ reportFile \in { NoFile, StaleReport }
    /\ reportAtStart = reportFile
    /\ reportWrites = 0
    /\ cur = NoPair
    /\ exc = NoExc
    /\ tmp = NoTmp
    /\ sleeps = 0
    /\ processed = <<>>

Pair == pairs[index]

\* main up to the loop: the configuration checks, build_pairs and the first prints.
MainSetup ==
    /\ pc = "main"
    /\ \/ /\ SetupError(cfg) = "credentials"
          /\ pc' = "aborted"
          /\ exc' = Raise("RuntimeError", <<"Set BOT_TOKEN and CHANNEL_ID">>)
          /\ UNCHANGED <<pairs, missing, out, index>>
       \/ /\ SetupError(cfg) = "folder"
          /\ pc' = "aborted"
          /\ exc' = Raise("RuntimeError", <<"Folder not found">>)
          /\ UNCHANGED <<pairs, missing, out, index>>
       \/ /\ SetupError(cfg) = "none"
          /\ \E built \in { build_pairs(listing) : listing \in Enumerations(folder) } :
                /\ pairs' = built.pairs
                /\ missing' = built.missing
                /\ exc' = NoExc
                /\ out' = IF built.pairs = <<>>
                          THEN <<Printed("no_pairs", 0)>>
                          ELSE <<Printed("found", Len(built.pairs))>>
                                  \o (IF built.missing # <<>>
                                      THEN <<Printed("missing", Len(built.missing))>>
                                      ELSE <<>>)
                /\ pc' = IF built.pairs = <<>> THEN "returned" ELSE "loop"
                /\ index' = IF built.pairs = <<>> THEN 0 ELSE 1
    /\ UNCHANGED <<uploaded, too_large, failed, too_large_details, reportFile,
                   reportWrites, cur, tmp, sleeps, processed, cfg>>
    /\ UNCHANGED <<nsLog, folder, bpLog, enc, reportAtStart>>

\* The head of the for loop with a pair left: the progress line, then upload_pair is entered.
LoopNext ==
    /\ pc = "loop"
    /\ index <= Len(pairs)
    /\ out' = Append(out, Printed("progress", index))
    /\ processed' = Append(processed, Pair.stem)
    /\ cur' = NoPair
    /\ exc' = NoExc
    /\ pc' = "stat_book"
    /\ UNCHANGED <<cfg, pairs, missing, index, uploaded, too_large, failed,
                   too_large_details, reportFile, reportWrites, tmp, sleeps>>
    /\ UNCHANGED <<nsLog, folder, bpLog, enc, reportAtStart>>

\* upload_pair: book_path.stat() and the size gate on the document.
StatBook ==
    /\ pc = "stat_book"
    /\ \/ /\ exc' = Raise("OSError", <<"stat">>)
          /\ pc' = "classify"
          /\ UNCHANGED cur
       \/ \E book_size \in Sizes :
            /\ cur' = [cur EXCEPT !.book_size = book_size]
            /\ IF BookTooLarge(book_size)
               THEN /\ exc' = Raise(TooLargeError,
                                    <<"Book is too large: ">> \o Pair.book.name
                                       \o <<" (">> \o format_size(book_size) \o <<")">>)
                    /\ pc' = "classify"
               ELSE /\ exc' = NoExc
                    /\ pc' = "prepare"
    /\ UNCHANGED <<cfg, pairs, missing, index, uploaded, too_large, failed,
                   too_large_details, out, reportFile, reportWrites, tmp, sleeps,
                   processed>>
    /\ UNCHANGED <<nsLog, folder, bpLog, enc, reportAtStart>>

\* prepared_image_for_upload is entered: the original path is yielded, or
\* the temporary directory is created.
PrepareImage ==
    /\ pc = "prepare"
    /\ IF ~NeedsConversion(Pair.image)
       THEN /\ cur' = [cur EXCEPT !.prepared = TRUE,
                                  !.ready = [tmp |-> FALSE, name |-> Pair.image.name]]
            /\ pc' = "stat_image"
            /\ UNCHANGED <<tmp, exc>>
       ELSE /\ cur' = [cur EXCEPT !.prepared = TRUE]
            /\ \/ /\ tmp' = [dir |-> TRUE, file |-> FALSE]
                  /\ pc' = "convert"
                  /\ UNCHANGED exc
               \/ /\ exc' = Raise("OSError", <<"mkdtemp">>)
                  /\ pc' = "classify"
                  /\ UNCHANGED tmp
    /\ UNCHANGED <<cfg, pairs, missing, index, uploaded, too_large, failed,
                   too_large_details, out, reportFile, reportWrites, sleeps,
                   processed>>
    /\ UNCHANGED <<nsLog, folder, bpLog, enc, reportAtStart>>

\* prepared_image_for_upload: Image.open, convert and save into the temporary directory.
ConvertImage ==
    /\ pc = "convert"
    /\ LET safe_name == IF sanitize_filename(Pair.stem) # <<>>
                        THEN sanitize_filename(Pair.stem)
                        ELSE <<"c", "o", "v", "e", "r">>
           jpg_path == [tmp |-> TRUE, name |-> safe_name \o <<".", "j", "p", "g">>]
       IN  \/ /\ tmp' = [tmp EXCEPT !.file = TRUE]
              /\ cur' = [cur EXCEPT !.ready = jpg_path]
              /\ pc' = "stat_image"
              /\ UNCHANGED exc
           \/ /\ exc' = Raise("UnidentifiedImageError", <<"cannot identify image file">>)
              /\ pc' = "exit_with"
              /\ UNCHANGED <<tmp, cur>>
           \/ /\ tmp' = [tmp EXCEPT !.file = TRUE]
              /\ exc' = Raise("OSError", <<"save">>)
              /\ pc' = "exit_with"
              /\ UNCHANGED cur
    /\ UNCHANGED <<cfg, pairs, missing, index, uploaded, too_large, failed,
                   too_large_details, out, reportFile, reportWrites, sleeps,
                   processed>>
    /\ UNCHANGED <<nsLog, folder, bpLog, enc, reportAtStart>>

\* upload_pair: ready_image_path.stat() and the size gate on the prepared image.
StatImage ==
    /\ pc = "stat_image"
    /\ \/ /\ exc' = Raise("OSError", <<"stat">>)
          /\ pc' = "exit_with"
          /\ UNCHANGED cur
       \/ \E image_size \in Sizes :
            /\ cur' = [cur EXCEPT !.image_size = image_size]
            /\ IF ImageTooLarge(image_size)
               THEN /\ exc' = Raise(TooLargeError,
                                    <<"Image is too large: ">> \o cur.ready.name
                                       \o <<" (">> \o format_size(image_size) \o <<")">>)
                    /\ pc' = "exit_with"
               ELSE /\ exc' = NoExc
                    /\ pc' = "send_photo"
    /\ UNCHANGED <<cfg, pairs, missing, index, uploaded, too_large, failed,
                   too_large_details, out, reportFile, reportWrites, tmp, sleeps,
                   processed>>
    /\ UNCHANGED <<nsLog, folder, bpLog, enc, reportAtStart>>

\* One telegram_call of upload_pair: the file is read by encode_multipart,
\* then the request is sent and the response handled.
Call(method, next) ==
    \/ /\ exc' = Raise("OSError", <<"open">>)
       /\ pc' = next
       /\ UNCHANGED cur
    \/ \E resp \in Responses :
         /\ cur' = [cur EXCEPT !.calls = Append(@, [method |-> method, resp |-> resp])]
         /\ exc' = telegram_call(resp)
         /\ pc' = next

SendPhoto ==
    /\ pc = "send_photo"
    /\ Call("sendPhoto", "exit_with")
    /\ UNCHANGED <<cfg, pairs, missing, index, uploaded, too_large, failed,
                   too_large_details, out, reportFile, reportWrites, tmp, sleeps,
                   processed>>
    /\ UNCHANGED <<nsLog, folder, bpLog, enc, reportAtStart>>

\* The with block of upload_pair is left, normally or by an exception.
ExitPrepared ==
    /\ pc = "exit_with"
    /\ tmp' = TmpAfterExit(tmp, exc)
    /\ pc' = AfterWith(exc)
    /\ UNCHANGED <<cfg, pairs, missing, index, uploaded, too_large, failed,
                   too_large_details, out, reportFile, reportWrites, cur, exc,
                   sleeps, processed>>
    /\ UNCHANGED <<nsLog, folder, bpLog, enc, reportAtStart>>

SendDocument ==
    /\ pc = "send_document"
    /\ Call("sendDocument", "classify")
    /\ UNCHANGED <<cfg, pairs, missing, index, uploaded, too_large, failed,
                   too_large_details, out, reportFile, reportWrites, tmp, sleeps,
                   processed>>
    /\ UNCHANGED <<nsLog, folder, bpLog, enc, reportAtStart>>

\* main: the else / except branches around upload_pair.
Classify ==
    /\ pc = "classify"
    /\ LET branch == Handler(exc.cls)
       IN  /\ uploaded' = IF branch = "uploaded" THEN uploaded + 1 ELSE uploaded
           /\ too_large' = IF branch = "too_large" THEN too_large + 1 ELSE too_large
           /\ failed' = IF branch = "failed" THEN failed + 1 ELSE failed
           /\ too_large_details' =
                 IF branch = "too_large"
                 THEN Append(too_large_details, Pair.stem \o <<" | ">> \o exc.msg)
                 ELSE too_large_details
           /\ out' = CASE branch = "too_large" -> Append(out, Printed("skipped", index))
                       [] branch = "failed" -> Append(out, Printed("failed", index))
                       [] OTHER -> out
           /\ pc' = IF branch = "uncaught" THEN "aborted" ELSE "sleep"
    /\ UNCHANGED <<cfg, pairs, missing, index, reportFile, reportWrites, cur, exc,
                   tmp, sleeps, processed>>
    /\ UNCHANGED <<nsLog, folder, bpLog, enc, reportAtStart>>

\* main: sleep(POST_DELAY_SECONDS) at the end of the loop body.
Sleep ==
    /\ pc = "sleep"
    /\ sleeps' = AfterSleep(sleeps, exc)
    /\ index' = index + 1
    /\ pc' = "loop"
    /\ UNCHANGED <<cfg, pairs, missing, uploaded, too_large, failed,
                   too_large_details, out, reportFile, reportWrites, cur, exc, tmp,
                   processed>>
    /\ UNCHANGED <<nsLog, folder, bpLog, enc, reportAtStart>>

\* main after the loop: the report is written when there are details, then
\* the final counts are printed.
Finish ==
    /\ pc = "loop"
    /\ index > Len(pairs)
    /\ IF too_large_details # <<>>
       THEN /\ reportFile' = write_text(reportFile, JoinLines(too_large_details))
            /\ reportWrites' = reportWrites + 1
            /\ out' = out \o <<Printed("saved", 0), Printed("done", 0),
                               Printed("uploaded", uploaded),
                               Printed("too_large", too_large),
                               Printed("failed_count", failed)>>
       ELSE /\ UNCHANGED <<reportFile, reportWrites>>
            /\ out' = out \o <<Printed("done", 0),
                               Printed("uploaded", uploaded),
                               Printed("too_large", too_large),
                               Printed("failed_count", failed)>>
    /\ pc' = "done"
    /\ UNCHANGED <<cfg, pairs, missing, index, uploaded, too_large, failed,
                   too_large_details, cur, exc, tmp, sleeps, processed>>
    /\ UNCHANGED <<nsLog, folder, bpLog, enc, reportAtStart>>

Next ==
    \/ MainSetup
    \/ LoopNext
    \/ StatBook
    \/ PrepareImage
    \/ ConvertImage
    \/ StatImage
    \/ SendPhoto
    \/ ExitPrepared
    \/ SendDocument
    \/ Classify
    \/ Sleep
    \/ Finish

Spec == MainInit /\ [][Next]_vars

\* main runs as one sequential process: inside the loop, and after it, the
\* step that can be taken is taken.
LoopStep ==
    \/ LoopNext
    \/ StatBook
    \/ PrepareImage
    \/ ConvertImage
    \/ StatImage
    \/ SendPhoto
    \/ ExitPrepared
    \/ SendDocument
    \/ Classify
    \/ Sleep
    \/ Finish

LiveSpec == Spec /\ WF_vars(LoopStep)

TypeOK ==
    /\ pc \in { "main", "aborted", "returned", "loop", "stat_book", "prepare",
                "convert", "stat_image", "send_photo", "exit_with",
                "send_document", "classify", "sleep", "done" }
    /\ index \in 0..(Len(pairs) + 1)
    /\ uploaded \in 0..Len(pairs)
    /\ too_large \in 0..Len(pairs)
    /\ failed \in 0..Len(pairs)

----------------------------------------------------------------------------
(* Shorthands for the claims about main *)

PairEnded == pc \in { "classify", "sleep", "loop", "done" }

LastCall == cur.calls[Len(cur.calls)]

OkResponse(resp) == resp.kind = "json" /\ resp.ok

CountedAs(u, t, f) ==
    /\ uploaded' = uploaded + u
    /\ too_large' = too_large + t
    /\ failed' = failed + f

LastDetail == too_large_details[Len(too_large_details)]

----------------------------------------------------------------------------
(* C1: a pair whose document is larger than MAX_FILE_SIZE_BYTES makes no    *)
(* network call, never enters the image preparer, and is counted as         *)
(* TooLarge (not Failed, not Uploaded) with a report line whose reason      *)
(* names the document's file name and its formatted size.                   *)
BookTooLargeSkipped ==
    /\ [](cur.book_size > MAX_FILE_SIZE_BYTES =>
             /\ cur.calls = <<>>
             /\ ~cur.prepared
             /\ tmp = NoTmp
             /\ PairEnded)
    /\ [][(pc = "classify" /\ cur.book_size > MAX_FILE_SIZE_BYTES) =>
             /\ CountedAs(0, 1, 0)
             /\ Len(too_large_details') = Len(too_large_details) + 1
             /\ Contains(too_large_details'[Len(too_large_details')], Pair.book.name)
             /\ Contains(too_large_details'[Len(too_large_details')],
                         format_size(cur.book_size))]_vars

BookTooLargeSkippedWitness ==
    /\ pc = "sleep"
    /\ cur.book_size > MAX_FILE_SIZE_BYTES
    /\ too_large >= 1
    /\ Contains(LastDetail, Pair.book.name)

----------------------------------------------------------------------------
(* C2: a network call (sendPhoto or sendDocument) answered by an HTTP error *)
(* ends the pair; status 413 counts it as TooLarge with one report line     *)
(* added, any other status counts it as Failed with no report line.         *)
HttpErrorClassified ==
    /\ [](\A i \in 1..Len(cur.calls) :
             cur.calls[i].resp.kind = "http_error" =>
                 /\ i = Len(cur.calls)
                 /\ pc \in { "exit_with", "classify", "sleep", "loop", "done" })
    /\ [][(pc = "classify" /\ cur.calls # <<>> /\ LastCall.resp.kind = "http_error") =>
             IF LastCall.resp.code = 413
             THEN /\ CountedAs(0, 1, 0)
                  /\ Len(too_large_details') = Len(too_large_details) + 1
             ELSE /\ CountedAs(0, 0, 1)
                  /\ too_large_details' = too_large_details]_vars

\* A 413 on sendDocument has been counted after an earlier pair failed on another status.
HttpErrorClassifiedWitness ==
    /\ pc = "sleep"
    /\ Len(cur.calls) = 2
    /\ LastCall.method = "sendDocument"
    /\ LastCall.resp.kind = "http_error"
    /\ LastCall.resp.code = 413
    /\ too_large = 1
    /\ failed = 1

----------------------------------------------------------------------------
(* C3: when sendPhoto succeeded and the sendDocument call fails, the pair   *)
(* is counted as Failed and neither uploaded nor too_large changes.         *)

PhotoSucceeded == cur.calls # <<>> /\ OkResponse(cur.calls[1].resp)

\* upload_pair ended in its sendDocument call, and not by a returned payload.
DocumentCallFailed ==
    /\ pc = "classify"
    /\ PhotoSucceeded
    /\ Len(cur.calls) = 2 => ~OkResponse(cur.calls[2].resp)

DocumentGot413 ==
    /\ Len(cur.calls) = 2
    /\ cur.calls[2].resp.kind = "http_error"
    /\ cur.calls[2].resp.code = 413

\* As claimed: whatever the kind of failure, any HTTP status included.
DocumentFailureIsFailed ==
    [][DocumentCallFailed => CountedAs(0, 0, 1)]_vars

\* C3 as amended: every failure of sendDocument other than an HTTP 413
\* response counts the pair as Failed; an HTTP 413 counts it as TooLarge.
DocumentFailureIsFailedUnless413 ==
    [][DocumentCallFailed =>
          IF DocumentGot413 THEN CountedAs(0, 1, 0) ELSE CountedAs(0, 0, 1)]_vars

DocumentFailureWitness ==
    /\ pc = "sleep"
    /\ PhotoSucceeded
    /\ Len(cur.calls) = 2
    /\ cur.calls[2].resp.kind = "json"
    /\ ~cur.calls[2].resp.ok
    /\ failed >= 1
    /\ uploaded = 0

----------------------------------------------------------------------------
(* C4: after a completed run in which M pairs ended TooLarge, the report    *)
(* file holds exactly M lines when M > 0, and the run does not write the    *)
(* report when M = 0.                                                       *)
ReportHasOneLinePerTooLarge ==
    pc = "done" =>
        IF too_large > 0
        THEN /\ reportWrites = 1
             /\ reportFile.exists
             /\ LineCount(reportFile.text) = too_large
        ELSE reportWrites = 0

----------------------------------------------------------------------------
(* C5: once the loop has started no failure of a pair aborts the run: the   *)
(* pairs are handed to upload_pair once each in build_pairs' order, and the *)
(* run reaches the final counts.                                            *)

PairStems == [i \in 1..Len(pairs) |-> pairs[i].stem]

LoopStarted == pc \notin { "main", "aborted", "returned" }

RunProcessesEveryPair ==
    /\ [][pc' = "aborted" => pc = "main"]_vars
    /\ [](LoopStarted =>
             /\ Len(processed) = (IF pc \in { "loop", "done" } THEN index - 1 ELSE index)
             /\ Len(processed) <= Len(pairs)
             /\ processed = SubSeq(PairStems, 1, Len(processed)))
    /\ [](pc = "done" => processed = PairStems)
    /\ (LoopStarted ~> pc = "done")

RunProcessesEveryPairWitness ==
    /\ pc = "done"
    /\ Len(pairs) = 2
    /\ processed = PairStems
    /\ too_large = 1
    /\ failed = 1

----------------------------------------------------------------------------
(* C9: a pair whose document passed the size gate but whose prepared image  *)
(* is larger than MAX_FILE_SIZE_BYTES makes no network call and is counted  *)
(* as TooLarge.                                                             *)
ImageTooLargeSkipped ==
    /\ [](cur.image_size > MAX_FILE_SIZE_BYTES =>
             /\ cur.book_size >= 0
             /\ cur.book_size <= MAX_FILE_SIZE_BYTES
             /\ cur.calls = <<>>
             /\ pc \in { "exit_with", "classify", "sleep", "loop", "done" })
    /\ [][(pc = "classify" /\ cur.image_size > MAX_FILE_SIZE_BYTES) =>
             CountedAs(0, 1, 0)]_vars

\* The oversized image is the converted file.
ImageTooLargeSkippedWitness ==
    /\ pc = "sleep"
    /\ cur.image_size > MAX_FILE_SIZE_BYTES
    /\ cur.ready.tmp
    /\ too_large >= 1

----------------------------------------------------------------------------
(* C10: the temporary directory and the converted image exist only inside   *)
(* the with block of upload_pair; when the processing of a pair has ended,  *)
(* however it ended, they are gone.                                         *)
TempReleased ==
    pc \notin { "convert", "stat_image", "send_photo", "exit_with" } => tmp = NoTmp

\* A pair whose converted image was sent and refused has ended.
TempReleasedWitness ==
    /\ pc = "classify"
    /\ cur.ready.tmp
    /\ cur.calls # <<>>
    /\ exc # NoExc
    /\ tmp = NoTmp

----------------------------------------------------------------------------
(* C11: in a run in which build_pairs returned missing stems, the count of  *)
(* missing stems is printed exactly once, before the first pair is          *)
(* processed, and no missing stem gets a line of the report; also when no   *)
(* valid pair was found.                                                    *)

PrintedAt(t) == { i \in 1..Len(out) : out[i].t = t }

StartsWith(s, prefix) ==
    Len(s) >= Len(prefix) /\ SubSeq(s, 1, Len(prefix)) = prefix

MissingReportedOnce ==
    (pc \notin { "main", "aborted" } /\ missing # <<>>) =>
        /\ Cardinality(PrintedAt("missing")) = 1
        /\ \A i \in PrintedAt("missing") :
              /\ out[i].n = Len(missing)
              /\ \A j \in PrintedAt("progress") : i < j
        /\ \A i \in 1..Len(too_large_details), j \in 1..Len(missing) :
              ~StartsWith(too_large_details[i], missing[j] \o <<" | ">>)

----------------------------------------------------------------------------
(* C12: with a report left by an earlier run at the same path, after a      *)
(* completed run the report holds only the lines of this run's TooLarge     *)
(* outcomes; no line of the earlier run is still there.                     *)

\* As claimed: for every completed run.
ReportHoldsOnlyThisRun ==
    pc = "done" =>
        IF too_large_details = <<>>
        THEN ~reportFile.exists \/ reportFile.text = <<>>
        ELSE reportFile.exists /\ reportFile.text = JoinLines(too_large_details)

\* C12 as amended: a completed run with at least one TooLarge outcome
\* leaves a report holding exactly its own lines; a run without any leaves
\* the file as it found it.
ReportOverwrittenWhenTooLarge ==
    pc = "done" =>
        IF too_large_details = <<>>
        THEN reportFile = reportAtStart
        ELSE /\ reportFile.exists
             /\ reportFile.text = JoinLines(too_large_details)
             /\ ~Contains(reportFile.text, <<"old">>)

\* An earlier run's report has been replaced by this run's lines.
ReportOverwrittenWitness ==
    /\ pc = "done"
    /\ reportAtStart = StaleReport
    /\ too_large = 1
    /\ reportFile # reportAtStart

----------------------------------------------------------------------------
(* C13: a setup error (placeholder credential or channel id, source folder  *)
(* not found) aborts the run before build_pairs, before any network call,   *)
(* counter update or report write; a run that finds no valid pair ends      *)
(* without a network call and without writing the report.                   *)

NothingUploadedOrWritten ==
    /\ cur = NoPair
    /\ processed = <<>>
    /\ uploaded = 0 /\ too_large = 0 /\ failed = 0
    /\ too_large_details = <<>>
    /\ sleeps = 0
    /\ reportWrites = 0
    /\ reportFile = reportAtStart
    /\ tmp = NoTmp

SetupErrorAbortsEarly ==
    /\ (~cfg.token_set \/ ~cfg.channel_set \/ ~cfg.folder_exists) =>
          pc \in { "main", "aborted" }
    /\ pc = "aborted" =>
          /\ NothingUploadedOrWritten
          /\ pairs = <<>> /\ missing = <<>> /\ out = <<>>
    /\ pc = "returned" =>
          /\ NothingUploadedOrWritten
          /\ pairs = <<>>

\* The channel id is a placeholder and the folder holds two complete pairs.
SetupErrorAbortsEarlyWitness ==
    /\ pc = "aborted"
    /\ cfg.token_set /\ ~cfg.channel_set /\ cfg.folder_exists
    /\ \A listing \in Enumerations(folder) : Len(build_pairs(listing).pairs) = 2

----------------------------------------------------------------------------
(* C14: prepared_image_for_upload creates a temporary file exactly for the  *)
(* images whose case-folded extension is .tif or .tiff; for every other     *)
(* image the caller gets the original path and no temporary directory or    *)
(* file is created or deleted.                                              *)

IsTiff(p) ==
    Lower(PathSuffix(p.name)) \in { <<".", "t", "i", "f">>, <<".", "t", "i", "f", "f">> }

InPair ==
    pc \in { "stat_book", "prepare", "convert", "stat_image", "send_photo",
             "exit_with", "send_document", "classify", "sleep" }

\* The caller of prepared_image_for_upload holds the yielded path.
PathHandedOver == pc \in { "stat_image", "send_photo" }

TempOnlyForTiff ==
    /\ [](tmp # NoTmp => (InPair /\ IsTiff(Pair.image)))
    /\ [](PathHandedOver =>
             IF IsTiff(Pair.image)
             THEN /\ cur.ready.tmp
                  /\ cur.ready.name # Pair.image.name
                  /\ tmp = [dir |-> TRUE, file |-> TRUE]
             ELSE /\ cur.ready = [tmp |-> FALSE, name |-> Pair.image.name]
                  /\ tmp = NoTmp)
    /\ [][(InPair /\ ~IsTiff(Pair.image)) => tmp' = tmp]_vars

\* The converted copy of an image spelled .TIF is being sent.
TempOnlyForTiffWitness ==
    /\ pc = "send_photo"
    /\ PathSuffix(Pair.image.name) = <<".", "T", "I", "F">>
    /\ cur.ready.tmp
    /\ tmp.file

----------------------------------------------------------------------------
(* C15: the network calls of a pair form a prefix of <sendPhoto,            *)
(* sendDocument>: sendDocument is issued only after sendPhoto returned      *)
(* logical success, no method is called twice, and no call is issued for    *)
(* the pair after one of its calls has failed.                              *)
CallsArePrefix ==
    /\ [](/\ Len(cur.calls) <= 2
          /\ Len(cur.calls) >= 1 => cur.calls[1].method = "sendPhoto"
          /\ Len(cur.calls) = 2 =>
                /\ cur.calls[2].method = "sendDocument"
                /\ OkResponse(cur.calls[1].resp))
    /\ [][(cur.calls' # cur.calls /\ cur.calls' # <<>>) =>
             /\ Len(cur.calls') = Len(cur.calls) + 1
             /\ SubSeq(cur.calls', 1, Len(cur.calls)) = cur.calls
             /\ \A i \in 1..Len(cur.calls) : OkResponse(cur.calls[i].resp)
             /\ exc = NoExc]_vars

\* A pair has ended after a refused sendPhoto, with no further call.
CallsArePrefixWitness ==
    /\ pc = "sleep"
    /\ Len(cur.calls) = 1
    /\ cur.calls[1].resp.kind = "json"
    /\ ~cur.calls[1].resp.ok
    /\ failed = 1

----------------------------------------------------------------------------
(* C16: uploaded is incremented for a pair exactly when both size gates     *)
(* passed and both sendPhoto and sendDocument returned a payload whose ok   *)
(* flag is true; a transport failure, or an HTTP-success response that is   *)
(* unparsable or whose ok flag is absent or false, counts the pair as       *)
(* Failed, never Uploaded or TooLarge.                                      *)

BothGatesPassed ==
    /\ cur.book_size >= 0 /\ cur.book_size <= MAX_FILE_SIZE_BYTES
    /\ cur.image_size >= 0 /\ cur.image_size <= MAX_FILE_SIZE_BYTES

BothCallsOk ==
    /\ Len(cur.calls) = 2
    /\ OkResponse(cur.calls[1].resp)
    /\ OkResponse(cur.calls[2].resp)

NoPayloadOrNotOk(resp) ==
    \/ resp.kind \in { "url_error", "timeout", "not_json" }
    \/ resp.kind = "json" /\ ~resp.ok

UploadedOnlyOnFullSuccess ==
    [][/\ uploaded' \in { uploaded, uploaded + 1 }
       /\ uploaded' = uploaded + 1 <=> (pc = "classify" /\ BothGatesPassed /\ BothCallsOk)
       /\ (pc = "classify" /\ cur.calls # <<>> /\ NoPayloadOrNotOk(LastCall.resp)) =>
             CountedAs(0, 0, 1)]_vars

\* A pair whose two files are exactly at the limit has been counted as uploaded.
UploadedOnlyOnFullSuccessWitness ==
    /\ pc = "sleep"
    /\ cur.book_size = MAX_FILE_SIZE_BYTES
    /\ cur.image_size = MAX_FILE_SIZE_BYTES
    /\ BothCallsOk
    /\ uploaded = 1

----------------------------------------------------------------------------
(* C17: pairs are processed one after another with the delay in between: a  *)
(* network call for a pair is issued only when every earlier pair has its   *)
(* outcome and its delay has been waited, and the delay is waited exactly   *)
(* once after every pair, whatever its outcome.                             *)

Counted == uploaded + too_large + failed

SequentialWithDelay ==
    /\ [](LoopStarted =>
             /\ sleeps = index - 1
             /\ Counted = (IF pc = "sleep" THEN index ELSE index - 1))
    /\ [](pc = "done" => sleeps = Len(pairs))
    /\ [][(cur.calls' # cur.calls /\ cur.calls' # <<>>) =>
             /\ sleeps = index - 1
             /\ Counted = index - 1]_vars
    /\ [][sleeps' # sleeps =>
             /\ sleeps' = sleeps + 1
             /\ pc = "sleep"
             /\ Counted = sleeps + 1]_vars

\* The second pair is about to send after the first was skipped as too
\* large and its delay was waited.
SequentialWithDelayWitness ==
    /\ pc = "send_photo"
    /\ index = 2
    /\ sleeps = 1
    /\ too_large = 1

----------------------------------------------------------------------------
(* C18: counter conservation: after k pairs have been processed,            *)
(* uploaded + too_large + failed = k, every processed pair having           *)
(* incremented exactly one counter by one; the number of accumulated        *)
(* report lines equals too_large; at the end the counters sum to N.         *)

PairsCompleted ==
    IF pc \in { "sleep", "loop", "done" } THEN Len(processed) ELSE Len(processed) - 1

OneCounterIncremented ==
    \/ CountedAs(1, 0, 0)
    \/ CountedAs(0, 1, 0)
    \/ CountedAs(0, 0, 1)

CounterConservation ==
    /\ [](LoopStarted =>
             /\ uploaded + too_large + failed = PairsCompleted
             /\ Len(too_large_details) = too_large)
    /\ [](pc = "done" => uploaded + too_large + failed = Len(pairs))
    /\ [][pc = "classify" => OneCounterIncremented]_vars
    /\ [][(pc # "classify" /\ pc # "main") => CountedAs(0, 0, 0)]_vars

CounterConservationWitness ==
    /\ pc = "done"
    /\ Len(pairs) = 2
    /\ uploaded = 1
    /\ too_large = 1
    /\ Len(too_large_details) = 1

----------------------------------------------------------------------------
(* C19: the size gates compare strictly against MAX_FILE_SIZE_MB * 1024 *   *)
(* 1024 bytes: a document and a prepared image of at most that size (the    *)
(* limit itself included) pass the gates and the pair proceeds to           *)
(* sendPhoto; a size of limit + 1 is rejected as TooLarge.                  *)

SizeLimit == MAX_FILE_SIZE_MB * 1024 * 1024

SizeGateStrict ==
    /\ [][(pc = "stat_book" /\ cur'.book_size >= 0) =>
             IF cur'.book_size <= SizeLimit
             THEN pc' = "prepare" /\ exc' = NoExc
             ELSE pc' = "classify" /\ exc'.cls = TooLargeError]_vars
    /\ [][(pc = "stat_image" /\ cur'.image_size >= 0) =>
             IF cur'.image_size <= SizeLimit
             THEN pc' = "send_photo" /\ exc' = NoExc
             ELSE pc' = "exit_with" /\ exc'.cls = TooLargeError]_vars
    /\ [](pc = "send_photo" =>
             /\ cur.book_size \in 0..SizeLimit
             /\ cur.image_size \in 0..SizeLimit)

\* Both files are exactly at the limit and sendPhoto is reached.
SizeGateStrictWitness ==
    /\ pc = "send_photo"
    /\ cur.book_size = SizeLimit
    /\ cur.image_size = SizeLimit

\* A document of limit + 1 bytes has been rejected.
SizeGateRejectsWitness ==
    /\ pc = "classify"
    /\ cur.book_size = SizeLimit + 1
    /\ exc.cls = TooLargeError

----------------------------------------------------------------------------
(* encode_multipart *)

\* mimetypes.guess_type on the file name: by case-folded extension.
guess_type(name) ==
    LET ext == Lower(PathSuffix(name))
    IN  CASE ext \in { <<".", "j", "p", "g">>, <<".", "j", "p", "e", "g">> } -> "image/jpeg"
          [] ext = <<".", "p", "n", "g">> -> "image/png"
          [] ext = <<".", "w", "e", "b", "p">> -> "image/webp"
          [] ext \in { <<".", "t", "i", "f">>, <<".", "t", "i", "f", "f">> } -> "image/tiff"
          [] ext = <<".", "p", "d", "f">> -> "application/pdf"
          [] ext = <<".", "e", "p", "u", "b">> -> "application/epub+zip"
          [] OTHER -> "none"

RECURSIVE FieldChunks(_, _)
FieldChunks(fields, boundary) ==
    IF fields = <<>> THEN <<>>
    ELSE <<"--">> \o boundary \o <<"\r\n">>
         \o <<"Content-Disposition: form-data; name=\"", Head(fields)[1], "\"", "\r\n", "\r\n">>
         \o Head(fields)[2] \o <<"\r\n">>
         \o FieldChunks(Tail(fields), boundary)

RECURSIVE FileChunks(_, _, _)
FileChunks(files, boundary, data) ==
    IF files = <<>> THEN <<>>
    ELSE LET guessed == guess_type(Head(files)[2])
             mime_type == IF guessed # "none" THEN guessed ELSE "application/octet-stream"
         IN  <<"--">> \o boundary \o <<"\r\n">>
             \o <<"Content-Disposition: form-data; name=\"", Head(files)[1], "\"; ",
                  "filename=\"">> \o Head(files)[2] \o <<"\"", "\r\n">>
             \o <<"Content-Type: ", mime_type, "\r\n", "\r\n">>
             \o Head(data)
             \o <<"\r\n">>
             \o FileChunks(Tail(files), boundary, Tail(data))

\* encode_multipart without the final chunk.
encode_multipart_unterminated(fields, files, hex, data) ==
    LET boundary == <<"----TelegramBoundary", hex>>
    IN  [body |-> FieldChunks(fields, boundary) \o FileChunks(files, boundary, data),
         content_type |-> <<"multipart/form-data; boundary=">> \o boundary]

\* encode_multipart: fields is the list of the mapping's items, files the
\* list of (field name, file name), hex the value of uuid4().hex and data
\* the bytes read from each file.
encode_multipart(fields, files, hex, data) ==
    LET boundary == <<"----TelegramBoundary", hex>>
    IN  [body |-> FieldChunks(fields, boundary) \o FileChunks(files, boundary, data)
                    \o <<"--">> \o boundary \o <<"--", "\r\n">>,
         content_type |-> <<"multipart/form-data; boundary=">> \o boundary]

----------------------------------------------------------------------------
(* Specification of encode_multipart: one call on a field mapping and a     *)
(* file list.                                                               *)

FieldItems ==
    { <<"chat_id", <<"@", "c">>>>, <<"caption", <<"A", " ", "b">>>> }

FieldMappings ==
    { <<>> } \cup { <<f>> : f \in FieldItems }
             \cup { p \in FieldItems \X FieldItems : p[1] # p[2] }

FileEntries ==
    { <<"photo", <<"A", ".", "j", "p", "g">>>>,
      <<"document", <<"A", ".", "p", "d", "f">>>>,
      <<"document", <<"n", "o", "t", "e", "s">>>> }

RECURSIVE FileLists(_)
FileLists(n) ==
    IF n = 0 THEN { <<>> }
    ELSE LET shorter == FileLists(n - 1)
         IN  shorter \cup { Append(l, f) : l \in shorter, f \in FileEntries }

\* Contents a file may have; the boundary is drawn after the files exist.
FileData == { <<>>, <<"%PDF">>, <<"--", "\r\n">> }

Uuids == { "0f", "a1" }

EncInit ==
    /\ enc \in { [NoEnc EXCEPT !.fields = fs, !.files = fl] :
                    fs \in FieldMappings, fl \in FileLists(MaxParts) }
    /\ nsLog = <<>>
    /\ folder = {}
    /\ bpLog = <<>>
    /\ MainIdle

EncodeMultipart ==
    /\ ~enc.called
    /\ \/ \E hex \in Uuids, data \in [1..Len(enc.files) -> FileData] :
            LET r == encode_multipart(enc.fields, enc.files, hex, data)
            IN  enc' = [enc EXCEPT !.called = TRUE, !.body = r.body,
                                   !.content_type = r.content_type]
       \/ /\ enc.files # <<>>
          /\ enc' = [enc EXCEPT !.called = TRUE, !.raised = TRUE]
    /\ UNCHANGED <<nsLog, folder, bpLog, mainVars, reportAtStart>>

EncNext == EncodeMultipart

EncSpec == EncInit /\ [][EncNext]_vars

----------------------------------------------------------------------------
(* C20: the body returned by encode_multipart holds, in this order, one     *)
(* boundary-prefixed part per field (in mapping order) and one per file     *)
(* (in list order), then exactly one closing boundary marker as its last    *)
(* element; every part and the closing marker use the same boundary token,  *)
(* and that token is the one embedded in the returned content type.         *)

FoundAt(text, pat) ==
    { i \in 1..Len(text) : i + Len(pat) - 1 <= Len(text)
                              /\ SubSeq(text, i, i + Len(pat) - 1) = pat }

Kth(S, k) == CHOOSE x \in S : Cardinality({ y \in S : y < x }) = k - 1

MultipartLayout ==
    (enc.called /\ ~enc.raised) =>
        LET token == Tail(enc.content_type)
            opener == <<"--">> \o token \o <<"\r\n">>
            closer == <<"--">> \o token \o <<"--", "\r\n">>
            opens == FoundAt(enc.body, opener)
            nf == Len(enc.fields)
            np == Len(enc.files)
            after(k) == SubSeq(enc.body, Kth(opens, k) + Len(opener), Len(enc.body))
        IN  /\ Head(enc.content_type) = "multipart/form-data; boundary="
            /\ token # <<>>
            /\ Cardinality(opens) = nf + np
            /\ nf + np > 0 => 1 \in opens
            /\ FoundAt(enc.body, closer) = { Len(enc.body) - Len(closer) + 1 }
            /\ \A k \in 1..nf :
                  StartsWith(after(k),
                             <<"Content-Disposition: form-data; name=\"",
                               enc.fields[k][1], "\"", "\r\n", "\r\n">>
                                \o enc.fields[k][2] \o <<"\r\n">>)
            /\ \A k \in 1..np :
                  StartsWith(after(nf + k),
                             <<"Content-Disposition: form-data; name=\"",
                               enc.files[k][1], "\"; ", "filename=\"">>
                                \o enc.files[k][2] \o <<"\"", "\r\n">>)

\* Two fields and two files have been encoded.
MultipartLayoutWitness ==
    /\ enc.called /\ ~enc.raised
    /\ Len(enc.fields) = 2
    /\ Len(enc.files) = 2
    /\ enc.files[1] # enc.files[2]

====
